---- MODULE Spec2Model ----
(***************************************************************************)
(* TracesOfBreakfast: the run loop of main, ServeBreakfast, FlipPancakes,  *)
(* SyrupPancakes / syrupPancakes with its producer goroutine, and          *)
(* EatPancakes, as a state machine.                                        *)
(*                                                                         *)
(* Spec      the program: main calls ServeBreakfast over and over; the     *)
(*           producer goroutines of earlier invocations keep running.      *)
(* FairSpec  Spec with the fairness the Go scheduler gives: a goroutine    *)
(*           that can run eventually runs.                                 *)
(* StageSpec FlipPancakes and SyrupPancakes called on a batch of any       *)
(*           length by a caller that may cancel the context at any time    *)
(*           and may receive from the returned channel.                    *)
(***************************************************************************)
EXTENDS Integers, Sequences, FiniteSets, TLC

\* bounds of the model
MaxInv == 2        \* ServeBreakfast invocations the run loop makes
MaxBatch == 3      \* longest batch StageSpec hands to a stage

\* breakfast.MakePancakes(3)
NumCakes == 3

Inv == 1..MaxInv

VARIABLES
  pc,           \* position of the main goroutine
  inv,          \* the current ServeBreakfast invocation (0: none yet)
  cakes,        \* cakes[i]: the batch of invocation i, one record per pancake
  ctxDone,      \* ctxDone[i]: ctx.Done() of invocation i is closed
  cancelCalls,  \* cancelCalls[i]: calls of cancel()
  rootSpan,     \* rootSpan[i]: "none", "started" or "finished"
  finishCalls,  \* finishCalls[i]: calls of rootSpan.Finish()
  p,            \* loop index of FlipPancakes
  err,          \* named return value of FlipPancakes
  slept,        \* slept[i]: the time.Sleep of FlipPancakes has elapsed
  eip,          \* eip[i]: operations applied to the FlipPancakes event
  flipRet,      \* flipRet[i]: what FlipPancakes returned
  pancakeReady, \* pancakeReady[i]: operations applied to the PancakeReady event
  out,          \* out[i]: "nil", "open" or "closed"
  spawned,      \* spawned[i]: goroutines started by syrupPancakes
  gpc,          \* gpc[i]: position of the producer goroutine
  gp,           \* gp[i]: loop index of the producer goroutine
  mistakes,     \* mistakes[i]: soggy pancakes, by index
  emitted,      \* emitted[i]: pancakes handed to a receiver, in order
  receiver,     \* receiver[i]: "idle", "recv" (blocked in <-out) or "closed"
  ret,          \* ret[i]: what ServeBreakfast returned
  reported      \* what main printed, one entry per finished invocation

vars == <<pc, inv, cakes, ctxDone, cancelCalls, rootSpan, finishCalls, p, err,
          slept, eip, flipRet, pancakeReady, out, spawned, gpc, gp, mistakes,
          emitted, receiver, ret, reported>>

coordVars == <<pc, inv, ctxDone, cancelCalls, rootSpan, finishCalls, p, err,
               slept, eip, flipRet, ret, reported>>

\* error values
Nil == [kind |-> "nil", item |-> 0]
NoValue == [kind |-> "none", item |-> 0]
FlipError(k) == [kind |-> "Flip", item |-> k]
BurntPancake == [kind |-> "Burnt Pancake", item |-> 0]

\* one pancake: how often Flip and Syrup ran on it and what they returned
Pancake == [flips |-> 0, flipErr |-> FALSE, burnt |-> "unchecked",
            syrups |-> 0, syrupErr |-> FALSE]

MakePancakes(n) == [k \in 1..n |-> Pancake]

\* operations on an event in progress
\* an event in progress, as the sequence of the operations applied to it;
\* <<>> is no event
EventBegin == <<[op |-> "EventBegin", err |-> Nil]>>
SetError(e, x) == Append(e, [op |-> "SetError", err |-> x])
Done(e) == Append(e, [op |-> "Done", err |-> Nil])

\* logging.MaybeFinishEvent(ctx): Done on the event the context carries, if any
MaybeFinishEvent(e) == IF e # <<>> THEN Done(e) ELSE e

\* how often operation name was applied to event e
Count(e, name) == Cardinality({k \in 1..Len(e) : e[k].op = name})

(***************************************************************************)
(* main and ServeBreakfast                                                 *)
(***************************************************************************)

\* for { if err := ServeBreakfast(); ... }: the next invocation begins
mainLoop ==
  /\ pc = "main"
  /\ inv < MaxInv
  /\ inv' = inv + 1
  /\ pc' = "ServeBreakfast"
  /\ UNCHANGED <<cakes, ctxDone, cancelCalls, rootSpan, finishCalls, p, err,
                 slept, eip, flipRet, pancakeReady, out, spawned, gpc, gp,
                 mistakes, emitted, receiver, ret, reported>>

\* context.WithCancel, defer cancel(), StartSpan, defer rootSpan.Finish(),
\* ContextWithSpan, MakePancakes(3); then FlipPancakes is called
ServeBreakfast ==
  /\ pc = "ServeBreakfast"
  /\ ctxDone' = [ctxDone EXCEPT ![inv] = FALSE]
  /\ rootSpan' = [rootSpan EXCEPT ![inv] = "started"]
  /\ cakes' = [cakes EXCEPT ![inv] = MakePancakes(NumCakes)]
  /\ pc' = "FlipPancakes"
  /\ UNCHANGED <<inv, cancelCalls, finishCalls, p, err, slept, eip, flipRet,
                 pancakeReady, out, spawned, gpc, gp, mistakes, emitted,
                 receiver, ret, reported>>

\* afterFlipPancakes that drops the error and goes on to SyrupPancakes
afterFlipPancakes_DropsError ==
  /\ pc = "FlipPancakes.ret"
  /\ pc' = "SyrupPancakes"
  /\ UNCHANGED <<inv, cakes, ctxDone, cancelCalls, rootSpan, finishCalls, p,
                 err, slept, eip, flipRet, pancakeReady, out, spawned, gpc, gp,
                 mistakes, emitted, receiver, ret, reported>>

\* if err := FlipPancakes(ctx, cakes); err != nil { return err }
afterFlipPancakes ==
  /\ pc = "FlipPancakes.ret"
  /\ IF flipRet[inv] # Nil
       THEN /\ ret' = [ret EXCEPT ![inv] = flipRet[inv]]
            /\ pc' = "defer.Finish"
       ELSE /\ ret' = ret
            /\ pc' = "SyrupPancakes"
  /\ UNCHANGED <<inv, cakes, ctxDone, cancelCalls, rootSpan, finishCalls, p,
                 err, slept, eip, flipRet, pancakeReady, out, spawned, gpc, gp,
                 mistakes, emitted, receiver, reported>>

\* EatPancakes that waits for the channel to be closed without receiving the
\* pancakes sent on it
EatPancakes_WaitsForClose ==
  /\ pc = "SyrupPancakes.ret"
  /\ out[inv] = "closed"
  /\ ret' = [ret EXCEPT ![inv] = Nil]
  /\ pc' = "defer.Finish"
  /\ UNCHANGED <<inv, cakes, ctxDone, cancelCalls, rootSpan, finishCalls, p,
                 err, slept, eip, flipRet, pancakeReady, out, spawned, gpc, gp,
                 mistakes, emitted, receiver, reported>>

\* func EatPancakes(<-chan breakfast.Pancake) { return }, then return nil
EatPancakes ==
  /\ pc = "SyrupPancakes.ret"
  /\ ret' = [ret EXCEPT ![inv] = Nil]
  /\ pc' = "defer.Finish"
  /\ UNCHANGED <<inv, cakes, ctxDone, cancelCalls, rootSpan, finishCalls, p,
                 err, slept, eip, flipRet, pancakeReady, out, spawned, gpc, gp,
                 mistakes, emitted, receiver, reported>>

\* rootSpan.Finish() written before the final return only, not deferred:
\* the error return leaves the span unfinished
deferFinish_OnlyOnSuccess ==
  /\ pc = "defer.Finish"
  /\ IF ret[inv] = Nil
       THEN /\ rootSpan' = [rootSpan EXCEPT ![inv] = "finished"]
            /\ finishCalls' = [finishCalls EXCEPT ![inv] = @ + 1]
       ELSE UNCHANGED <<rootSpan, finishCalls>>
  /\ pc' = "defer.cancel"
  /\ UNCHANGED <<inv, cakes, ctxDone, cancelCalls, p, err, slept, eip, flipRet,
                 pancakeReady, out, spawned, gpc, gp, mistakes, emitted,
                 receiver, ret, reported>>

\* defer rootSpan.Finish(): registered last, runs first
deferFinish ==
  /\ pc = "defer.Finish"
  /\ rootSpan' = [rootSpan EXCEPT ![inv] = "finished"]
  /\ finishCalls' = [finishCalls EXCEPT ![inv] = @ + 1]
  /\ pc' = "defer.cancel"
  /\ UNCHANGED <<inv, cakes, ctxDone, cancelCalls, p, err, slept, eip, flipRet,
                 pancakeReady, out, spawned, gpc, gp, mistakes, emitted,
                 receiver, ret, reported>>

\* ServeBreakfast without its defer cancel()
deferCancel_Missing ==
  /\ pc = "defer.cancel"
  /\ pc' = "main.report"
  /\ UNCHANGED <<inv, cakes, ctxDone, cancelCalls, rootSpan, finishCalls, p,
                 err, slept, eip, flipRet, pancakeReady, out, spawned, gpc, gp,
                 mistakes, emitted, receiver, ret, reported>>

\* defer cancel(): closes ctx.Done(); ServeBreakfast has returned after it
deferCancel ==
  /\ pc = "defer.cancel"
  /\ ctxDone' = [ctxDone EXCEPT ![inv] = TRUE]
  /\ cancelCalls' = [cancelCalls EXCEPT ![inv] = @ + 1]
  /\ pc' = "main.report"
  /\ UNCHANGED <<inv, cakes, rootSpan, finishCalls, p, err, slept, eip,
                 flipRet, pancakeReady, out, spawned, gpc, gp, mistakes,
                 emitted, receiver, ret, reported>>

\* run loop that returns from main when ServeBreakfast failed
mainReport_HaltsOnError ==
  /\ pc = "main.report"
  /\ reported' = Append(reported, ret[inv])
  /\ pc' = IF ret[inv] # Nil THEN "main.exit" ELSE "main"
  /\ UNCHANGED <<inv, cakes, ctxDone, cancelCalls, rootSpan, finishCalls, p,
                 err, slept, eip, flipRet, pancakeReady, out, spawned, gpc, gp,
                 mistakes, emitted, receiver, ret>>

\* fmt.Printf("Breakfast is ruined! ...") or fmt.Printf("Breakfast Success!")
mainReport ==
  /\ pc = "main.report"
  /\ reported' = Append(reported, ret[inv])
  /\ pc' = "main"
  /\ UNCHANGED <<inv, cakes, ctxDone, cancelCalls, rootSpan, finishCalls, p,
                 err, slept, eip, flipRet, pancakeReady, out, spawned, gpc, gp,
                 mistakes, emitted, receiver, ret>>

(***************************************************************************)
(* FlipPancakes                                                            *)
(***************************************************************************)

\* eip := log.EventBegin(ctx, "FlipPancakes"); the deferred closure is set up
FlipPancakes ==
  /\ pc = "FlipPancakes"
  /\ eip' = [eip EXCEPT ![inv] = EventBegin]
  /\ err' = Nil
  /\ p' = 1
  /\ pc' = "Flip"
  /\ UNCHANGED <<inv, cakes, ctxDone, cancelCalls, rootSpan, finishCalls,
                 slept, flipRet, pancakeReady, out, spawned, gpc, gp, mistakes,
                 emitted, receiver, ret, reported>>

\* Flip loop that keeps the error and goes on to the next pancake
Flip_NoFailFast ==
  /\ pc = "Flip"
  /\ IF p > Len(cakes[inv])
       THEN /\ pc' = IF err # Nil THEN "FlipPancakes.defer" ELSE "Sleep"
            /\ UNCHANGED <<cakes, err, p>>
       ELSE \E ok \in BOOLEAN :
              /\ cakes' = [cakes EXCEPT ![inv][p].flips = @ + 1,
                                        ![inv][p].flipErr = ~ok]
              /\ err' = IF ok \/ err # Nil THEN err ELSE FlipError(p)
              /\ p' = p + 1
              /\ pc' = "Flip"
  /\ UNCHANGED <<inv, ctxDone, cancelCalls, rootSpan, finishCalls, slept, eip,
                 flipRet, pancakeReady, out, spawned, gpc, gp, mistakes,
                 emitted, receiver, ret, reported>>

\* Flip loop that leaves the loop at an error (break) but not the function
Flip_BreaksOnError ==
  /\ pc = "Flip"
  /\ IF p > Len(cakes[inv])
       THEN /\ pc' = "Sleep"
            /\ UNCHANGED <<cakes, err, p>>
       ELSE \E ok \in BOOLEAN :
              /\ cakes' = [cakes EXCEPT ![inv][p].flips = @ + 1,
                                        ![inv][p].flipErr = ~ok]
              /\ IF ok
                   THEN /\ p' = p + 1
                        /\ pc' = "Flip"
                        /\ err' = err
                   ELSE /\ err' = FlipError(p)
                        /\ pc' = "Sleep"
                        /\ p' = p
  /\ UNCHANGED <<inv, ctxDone, cancelCalls, rootSpan, finishCalls, slept, eip,
                 flipRet, pancakeReady, out, spawned, gpc, gp, mistakes,
                 emitted, receiver, ret, reported>>

\* for p := range cakes { if err := cakes[p].Flip(); err != nil { return err } }
Flip ==
  /\ pc = "Flip"
  /\ IF p > Len(cakes[inv])
       THEN /\ pc' = "Sleep"
            /\ UNCHANGED <<cakes, err, p>>
       ELSE \E ok \in BOOLEAN :
              /\ cakes' = [cakes EXCEPT ![inv][p].flips = @ + 1,
                                        ![inv][p].flipErr = ~ok]
              /\ IF ok
                   THEN /\ p' = p + 1
                        /\ pc' = "Flip"
                        /\ err' = err
                   ELSE /\ err' = FlipError(p)
                        /\ pc' = "FlipPancakes.defer"
                        /\ p' = p
  /\ UNCHANGED <<inv, ctxDone, cancelCalls, rootSpan, finishCalls, slept, eip,
                 flipRet, pancakeReady, out, spawned, gpc, gp, mistakes,
                 emitted, receiver, ret, reported>>

\* time.Sleep(1 * time.Second)
Sleep ==
  /\ pc = "Sleep"
  /\ slept' = [slept EXCEPT ![inv] = TRUE]
  /\ p' = 1
  /\ pc' = "IsBurnt"
  /\ UNCHANGED <<inv, cakes, ctxDone, cancelCalls, rootSpan, finishCalls, err,
                 eip, flipRet, pancakeReady, out, spawned, gpc, gp, mistakes,
                 emitted, receiver, ret, reported>>

\* burnt check with the test inverted
IsBurnt_Inverted ==
  /\ pc = "IsBurnt"
  /\ IF p > Len(cakes[inv])
       THEN /\ err' = Nil
            /\ pc' = "FlipPancakes.defer"
            /\ UNCHANGED <<cakes, p>>
       ELSE \E burnt \in BOOLEAN :
              /\ cakes' = [cakes EXCEPT ![inv][p].burnt =
                                          IF burnt THEN "yes" ELSE "no"]
              /\ IF ~burnt
                   THEN /\ err' = BurntPancake
                        /\ pc' = "FlipPancakes.defer"
                        /\ p' = p
                   ELSE /\ p' = p + 1
                        /\ pc' = "IsBurnt"
                        /\ err' = err
  /\ UNCHANGED <<inv, ctxDone, cancelCalls, rootSpan, finishCalls, slept, eip,
                 flipRet, pancakeReady, out, spawned, gpc, gp, mistakes,
                 emitted, receiver, ret, reported>>

\* burnt check that only notes a burnt pancake and carries on
IsBurnt_CarriesOn ==
  /\ pc = "IsBurnt"
  /\ IF p > Len(cakes[inv])
       THEN /\ err' = Nil
            /\ pc' = "FlipPancakes.defer"
            /\ UNCHANGED <<cakes, p>>
       ELSE \E burnt \in BOOLEAN :
              /\ cakes' = [cakes EXCEPT ![inv][p].burnt =
                                          IF burnt THEN "yes" ELSE "no"]
              /\ p' = p + 1
              /\ pc' = "IsBurnt"
              /\ err' = err
  /\ UNCHANGED <<inv, ctxDone, cancelCalls, rootSpan, finishCalls, slept, eip,
                 flipRet, pancakeReady, out, spawned, gpc, gp, mistakes,
                 emitted, receiver, ret, reported>>

\* for p := range cakes { if cakes[p].IsBurnt() { return errors.New(...) } }
\* and the return nil after the loop
IsBurnt ==
  /\ pc = "IsBurnt"
  /\ IF p > Len(cakes[inv])
       THEN /\ err' = Nil
            /\ pc' = "FlipPancakes.defer"
            /\ UNCHANGED <<cakes, p>>
       ELSE \E burnt \in BOOLEAN :
              /\ cakes' = [cakes EXCEPT ![inv][p].burnt =
                                          IF burnt THEN "yes" ELSE "no"]
              /\ IF burnt
                   THEN /\ err' = BurntPancake
                        /\ pc' = "FlipPancakes.defer"
                        /\ p' = p
                   ELSE /\ p' = p + 1
                        /\ pc' = "IsBurnt"
                        /\ err' = err
  /\ UNCHANGED <<inv, ctxDone, cancelCalls, rootSpan, finishCalls, slept, eip,
                 flipRet, pancakeReady, out, spawned, gpc, gp, mistakes,
                 emitted, receiver, ret, reported>>

\* deferred closure that closes the event before it tags the error
FlipPancakesDefer_DoneFirst ==
  /\ pc = "FlipPancakes.defer"
  /\ eip' = [eip EXCEPT ![inv] =
               IF err # Nil THEN SetError(Done(@), err) ELSE Done(@)]
  /\ flipRet' = [flipRet EXCEPT ![inv] = err]
  /\ pc' = "FlipPancakes.ret"
  /\ UNCHANGED <<inv, cakes, ctxDone, cancelCalls, rootSpan, finishCalls, p,
                 err, slept, pancakeReady, out, spawned, gpc, gp, mistakes,
                 emitted, receiver, ret, reported>>

\* defer func() { if err != nil { eip.SetError(err) }; eip.Done() }()
FlipPancakesDefer ==
  /\ pc = "FlipPancakes.defer"
  /\ eip' = [eip EXCEPT ![inv] =
               Done(IF err # Nil THEN SetError(@, err) ELSE @)]
  /\ flipRet' = [flipRet EXCEPT ![inv] = err]
  /\ pc' = "FlipPancakes.ret"
  /\ UNCHANGED <<inv, cakes, ctxDone, cancelCalls, rootSpan, finishCalls, p,
                 err, slept, pancakeReady, out, spawned, gpc, gp, mistakes,
                 emitted, receiver, ret, reported>>

(***************************************************************************)
(* SyrupPancakes, syrupPancakes and the producer goroutine                 *)
(***************************************************************************)

\* ctx = log.EventBeginInContext(ctx, "PancakeReady"); return syrupPancakes(..)
SyrupPancakes ==
  /\ pc = "SyrupPancakes"
  /\ pancakeReady' = [pancakeReady EXCEPT ![inv] = EventBegin]
  /\ pc' = "syrupPancakes"
  /\ UNCHANGED <<inv, cakes, ctxDone, cancelCalls, rootSpan, finishCalls, p,
                 err, slept, eip, flipRet, out, spawned, gpc, gp, mistakes,
                 emitted, receiver, ret, reported>>

\* syrupPancakes without the go statement: the loop runs in the caller, which
\* returns out only after it
syrupPancakes_NoGo ==
  /\ pc = "syrupPancakes"
  /\ out' = [out EXCEPT ![inv] = "open"]
  /\ spawned' = [spawned EXCEPT ![inv] = @ + 1]
  /\ gpc' = [gpc EXCEPT ![inv] = "Syrup"]
  /\ gp' = [gp EXCEPT ![inv] = 1]
  /\ mistakes' = [mistakes EXCEPT ![inv] = <<>>]
  /\ pc' = "syrupPancakes.loop"
  /\ UNCHANGED <<inv, cakes, ctxDone, cancelCalls, rootSpan, finishCalls, p,
                 err, slept, eip, flipRet, pancakeReady, emitted, receiver,
                 ret, reported>>

\* out := make(chan breakfast.Pancake); go func() {...}(); return out
syrupPancakes ==
  /\ pc = "syrupPancakes"
  /\ out' = [out EXCEPT ![inv] = "open"]
  /\ spawned' = [spawned EXCEPT ![inv] = @ + 1]
  /\ gpc' = [gpc EXCEPT ![inv] = "Syrup"]
  /\ gp' = [gp EXCEPT ![inv] = 1]
  /\ mistakes' = [mistakes EXCEPT ![inv] = <<>>]
  /\ pc' = "SyrupPancakes.ret"
  /\ UNCHANGED <<inv, cakes, ctxDone, cancelCalls, rootSpan, finishCalls, p,
                 err, slept, eip, flipRet, pancakeReady, emitted, receiver,
                 ret, reported>>

\* producer that gives up at the first soggy pancake
Syrup_ReturnsOnError(i) ==
  /\ gpc[i] = "Syrup"
  /\ IF gp[i] > Len(cakes[i])
       THEN /\ gpc' = [gpc EXCEPT ![i] = "defer.close"]
            /\ UNCHANGED <<cakes, mistakes, gp>>
       ELSE \E ok \in BOOLEAN :
              /\ cakes' = [cakes EXCEPT ![i][gp[i]].syrups = @ + 1,
                                        ![i][gp[i]].syrupErr = ~ok]
              /\ IF ok
                   THEN /\ gpc' = [gpc EXCEPT ![i] = "select"]
                        /\ UNCHANGED <<mistakes, gp>>
                   ELSE /\ mistakes' = [mistakes EXCEPT ![i] = Append(@, gp[i])]
                        /\ gpc' = [gpc EXCEPT ![i] = "defer.close"]
                        /\ gp' = gp
  /\ UNCHANGED <<coordVars, pancakeReady, out, spawned, emitted, receiver>>

\* producer without the continue: a soggy pancake goes on to the select
Syrup_NoContinue(i) ==
  /\ gpc[i] = "Syrup"
  /\ IF gp[i] > Len(cakes[i])
       THEN /\ gpc' = [gpc EXCEPT ![i] = "defer.close"]
            /\ UNCHANGED <<cakes, mistakes, gp>>
       ELSE \E ok \in BOOLEAN :
              /\ cakes' = [cakes EXCEPT ![i][gp[i]].syrups = @ + 1,
                                        ![i][gp[i]].syrupErr = ~ok]
              /\ mistakes' = IF ok THEN mistakes
                                   ELSE [mistakes EXCEPT ![i] = Append(@, gp[i])]
              /\ gpc' = [gpc EXCEPT ![i] = "select"]
              /\ gp' = gp
  /\ UNCHANGED <<coordVars, pancakeReady, out, spawned, emitted, receiver>>

\* for p := range cakes { if err := cakes[p].Syrup(); err != nil {
\*   mistakes = append(mistakes, cakes[p]); continue } ... }
\* the loop's end returns from the goroutine
Syrup(i) ==
  /\ gpc[i] = "Syrup"
  /\ IF gp[i] > Len(cakes[i])
       THEN /\ gpc' = [gpc EXCEPT ![i] = "defer.close"]
            /\ UNCHANGED <<cakes, mistakes, gp>>
       ELSE \E ok \in BOOLEAN :
              /\ cakes' = [cakes EXCEPT ![i][gp[i]].syrups = @ + 1,
                                        ![i][gp[i]].syrupErr = ~ok]
              /\ IF ok
                   THEN /\ gpc' = [gpc EXCEPT ![i] = "select"]
                        /\ UNCHANGED <<mistakes, gp>>
                   ELSE /\ mistakes' = [mistakes EXCEPT ![i] = Append(@, gp[i])]
                        /\ gp' = [gp EXCEPT ![i] = @ + 1]
                        /\ gpc' = gpc
  /\ UNCHANGED <<coordVars, pancakeReady, out, spawned, emitted, receiver>>

\* select { case out <- cakes[p]: ...}: out is unbuffered, the send happens
\* when a receiver is blocked in <-out and hands it the pancake
selectSend(i) ==
  /\ gpc[i] = "select"
  /\ out[i] = "open"
  /\ receiver[i] = "recv"
  /\ emitted' = [emitted EXCEPT ![i] = Append(@, gp[i])]
  /\ receiver' = [receiver EXCEPT ![i] = "idle"]
  /\ gpc' = [gpc EXCEPT ![i] = "len(mistakes)"]
  /\ UNCHANGED <<coordVars, cakes, pancakeReady, out, spawned, gp, mistakes>>

\* cancellation branch that finishes the event itself, on top of the defer
selectDone_FinishesEvent(i) ==
  /\ gpc[i] = "select"
  /\ ctxDone[i]
  /\ pancakeReady' = [pancakeReady EXCEPT ![i] = MaybeFinishEvent(@)]
  /\ gpc' = [gpc EXCEPT ![i] = "defer.close"]
  /\ UNCHANGED <<coordVars, cakes, out, spawned, gp, mistakes, emitted,
                 receiver>>

\* select { ... case <-ctx.Done(): return }
selectDone(i) ==
  /\ gpc[i] = "select"
  /\ ctxDone[i]
  /\ gpc' = [gpc EXCEPT ![i] = "defer.close"]
  /\ UNCHANGED <<coordVars, cakes, pancakeReady, out, spawned, gp, mistakes,
                 emitted, receiver>>

\* producer without the return after a send: it goes through the whole batch
lenMistakes_NoReturn(i) ==
  /\ gpc[i] = "len(mistakes)"
  /\ gpc' = [gpc EXCEPT ![i] = "Syrup"]
  /\ gp' = [gp EXCEPT ![i] = @ + 1]
  /\ UNCHANGED <<coordVars, cakes, pancakeReady, out, spawned, mistakes,
                 emitted, receiver>>

\* loop that stays on the same pancake after a send when mistakes is not empty
lenMistakes_NoAdvance(i) ==
  /\ gpc[i] = "len(mistakes)"
  /\ IF Len(mistakes[i]) = 0
       THEN gpc' = [gpc EXCEPT ![i] = "defer.close"]
       ELSE gpc' = [gpc EXCEPT ![i] = "Syrup"]
  /\ UNCHANGED <<coordVars, cakes, pancakeReady, out, spawned, gp, mistakes,
                 emitted, receiver>>

\* if len(mistakes) == 0 { return } else { }, then the next iteration
lenMistakes(i) ==
  /\ gpc[i] = "len(mistakes)"
  /\ IF Len(mistakes[i]) = 0
       THEN /\ gpc' = [gpc EXCEPT ![i] = "defer.close"]
            /\ gp' = gp
       ELSE /\ gpc' = [gpc EXCEPT ![i] = "Syrup"]
            /\ gp' = [gp EXCEPT ![i] = @ + 1]
  /\ UNCHANGED <<coordVars, cakes, pancakeReady, out, spawned, mistakes,
                 emitted, receiver>>

\* goroutine without its defer close(out)
deferClose_Missing(i) ==
  /\ gpc[i] = "defer.close"
  /\ gpc' = [gpc EXCEPT ![i] = "defer.MaybeFinishEvent"]
  /\ UNCHANGED <<coordVars, cakes, pancakeReady, out, spawned, gp, mistakes,
                 emitted, receiver>>

\* defer close(out): registered last, runs first
deferClose(i) ==
  /\ gpc[i] = "defer.close"
  /\ out' = [out EXCEPT ![i] = "closed"]
  /\ gpc' = [gpc EXCEPT ![i] = "defer.MaybeFinishEvent"]
  /\ UNCHANGED <<coordVars, cakes, pancakeReady, spawned, gp, mistakes,
                 emitted, receiver>>

\* defer logging.MaybeFinishEvent(ctx); the goroutine ends after it
deferMaybeFinishEvent(i) ==
  /\ gpc[i] = "defer.MaybeFinishEvent"
  /\ pancakeReady' = [pancakeReady EXCEPT ![i] = MaybeFinishEvent(@)]
  /\ gpc' = [gpc EXCEPT ![i] = "done"]
  /\ UNCHANGED <<coordVars, cakes, out, spawned, gp, mistakes, emitted,
                 receiver>>

(***************************************************************************)
(* The program                                                             *)
(***************************************************************************)

\* nothing has run yet
NoInvocation ==
  /\ ctxDone = [i \in Inv |-> FALSE]
  /\ cancelCalls = [i \in Inv |-> 0]
  /\ rootSpan = [i \in Inv |-> "none"]
  /\ finishCalls = [i \in Inv |-> 0]
  /\ p = 0
  /\ err = Nil
  /\ slept = [i \in Inv |-> FALSE]
  /\ eip = [i \in Inv |-> <<>>]
  /\ flipRet = [i \in Inv |-> NoValue]
  /\ pancakeReady = [i \in Inv |-> <<>>]
  /\ out = [i \in Inv |-> "nil"]
  /\ spawned = [i \in Inv |-> 0]
  /\ gpc = [i \in Inv |-> "none"]
  /\ gp = [i \in Inv |-> 0]
  /\ mistakes = [i \in Inv |-> <<>>]
  /\ emitted = [i \in Inv |-> <<>>]
  /\ receiver = [i \in Inv |-> "idle"]
  /\ ret = [i \in Inv |-> NoValue]
  /\ reported = <<>>

\* main after InitTracer succeeded, before the first ServeBreakfast
Init ==
  /\ pc = "main"
  /\ inv = 0
  /\ cakes = [i \in Inv |-> <<>>]
  /\ NoInvocation

\* the main goroutine
Main ==
  \/ mainLoop
  \/ ServeBreakfast
  \/ FlipPancakes
  \/ Flip
  \/ Sleep
  \/ IsBurnt
  \/ FlipPancakesDefer
  \/ afterFlipPancakes
  \/ SyrupPancakes
  \/ syrupPancakes
  \/ EatPancakes
  \/ deferFinish
  \/ deferCancel
  \/ mainReport

\* the producer goroutine of invocation i. Nothing ever receives from out
\* (EatPancakes returns at once), so the send of its select is never ready
Producer(i) ==
  \/ Syrup(i)
  \/ selectDone(i)
  \/ deferClose(i)
  \/ deferMaybeFinishEvent(i)

Next ==
  \/ Main
  \/ \E i \in Inv : Producer(i)

Spec == Init /\ [][Next]_vars

\* every goroutine that can take a step eventually takes one
FairSpec ==
  /\ Spec
  /\ WF_vars(Main)
  /\ \A i \in Inv : WF_vars(Producer(i))

(***************************************************************************)
(* The stages on their own: a caller hands FlipPancakes or SyrupPancakes a *)
(* batch of any length, may cancel ctx at any time and may receive from    *)
(* the channel SyrupPancakes returned.                                     *)
(***************************************************************************)

StageInit ==
  /\ inv = 1
  /\ pc \in {"FlipPancakes", "SyrupPancakes"}
  /\ \E n \in 0..MaxBatch :
       cakes = [i \in Inv |-> IF i = 1 THEN MakePancakes(n) ELSE <<>>]
  /\ NoInvocation

\* the caller goes on to SyrupPancakes when FlipPancakes returned nil
callerAfterFlip ==
  /\ pc = "FlipPancakes.ret"
  /\ pc' = IF flipRet[inv] = Nil THEN "SyrupPancakes" ELSE "caller.done"
  /\ UNCHANGED <<inv, cakes, ctxDone, cancelCalls, rootSpan, finishCalls, p,
                 err, slept, eip, flipRet, pancakeReady, out, spawned, gpc, gp,
                 mistakes, emitted, receiver, ret, reported>>

\* the caller cancels the context
callerCancel ==
  /\ ~ctxDone[inv]
  /\ ctxDone' = [ctxDone EXCEPT ![inv] = TRUE]
  /\ cancelCalls' = [cancelCalls EXCEPT ![inv] = @ + 1]
  /\ UNCHANGED <<pc, inv, cakes, rootSpan, finishCalls, p, err, slept, eip,
                 flipRet, pancakeReady, out, spawned, gpc, gp, mistakes,
                 emitted, receiver, ret, reported>>

\* the caller blocks in <-out
callerReceive ==
  /\ pc = "SyrupPancakes.ret"
  /\ receiver[inv] = "idle"
  /\ receiver' = [receiver EXCEPT ![inv] = "recv"]
  /\ UNCHANGED <<pc, inv, cakes, ctxDone, cancelCalls, rootSpan, finishCalls,
                 p, err, slept, eip, flipRet, pancakeReady, out, spawned, gpc,
                 gp, mistakes, emitted, ret, reported>>

\* a receive on the closed channel returns: the caller's range loop ends
callerReceiveClosed ==
  /\ receiver[inv] = "recv"
  /\ out[inv] = "closed"
  /\ receiver' = [receiver EXCEPT ![inv] = "closed"]
  /\ UNCHANGED <<pc, inv, cakes, ctxDone, cancelCalls, rootSpan, finishCalls,
                 p, err, slept, eip, flipRet, pancakeReady, out, spawned, gpc,
                 gp, mistakes, emitted, ret, reported>>

StageNext ==
  \/ FlipPancakes
  \/ Flip
  \/ Sleep
  \/ IsBurnt
  \/ FlipPancakesDefer
  \/ callerAfterFlip
  \/ SyrupPancakes
  \/ syrupPancakes
  \/ callerCancel
  \/ callerReceive
  \/ callerReceiveClosed
  \/ Syrup(1)
  \/ selectSend(1)
  \/ selectDone(1)
  \/ lenMistakes(1)
  \/ deferClose(1)
  \/ deferMaybeFinishEvent(1)

StageSpec == StageInit /\ [][StageNext]_vars

(***************************************************************************)
(* Properties                                                              *)
(***************************************************************************)

Items(i) == 1..Len(cakes[i])

\* the elements of a sequence
Range(s) == {s[k] : k \in 1..Len(s)}

\* the producer goroutine of invocation i has ended, with out and the
\* PancakeReady event closed
ProducerTerminated(i) ==
  /\ gpc[i] = "done"
  /\ out[i] = "closed"
  /\ Count(pancakeReady[i], "Done") = 1

\* ServeBreakfast invocation i has returned to the run loop
Returned(i) == i < inv \/ (i = inv /\ pc \in {"main.report", "main"})

\* C1: every producer goroutine that ServeBreakfast starts eventually ends, and
\* whenever it has ended it has closed out and the PancakeReady event, although
\* nothing ever receives from out.
C1_ProducerTerminates ==
  /\ \A i \in Inv : (spawned[i] > 0) ~> ProducerTerminated(i)
  /\ [](\A i \in Inv : gpc[i] = "done" => ProducerTerminated(i))

\* a producer that blocked in its select with a pancake to send, was released
\* by cancel() and ended with nothing received
C1_Witness ==
  \E i \in Inv :
    /\ ProducerTerminated(i)
    /\ gp[i] <= Len(cakes[i])
    /\ ~cakes[i][gp[i]].syrupErr
    /\ emitted[i] = <<>>
    /\ receiver[i] = "idle"

\* C2: Done runs at most once on the FlipPancakes event and at most once on the
\* PancakeReady event, whichever way FlipPancakes and the producer end.
C2_CloseAtMostOnce ==
  \A i \in Inv :
    /\ Count(eip[i], "Done") <= 1
    /\ Count(pancakeReady[i], "Done") <= 1

\* FlipPancakes returned nil and the producer ended by cancellation, each event
\* closed once
C2_Witness ==
  /\ flipRet[1] = Nil
  /\ Count(eip[1], "Done") = 1
  /\ gpc[1] = "done"
  /\ ctxDone[1]
  /\ gp[1] <= Len(cakes[1])
  /\ emitted[1] = <<>>
  /\ Count(pancakeReady[1], "Done") = 1

\* C3 as claimed: once ctx is cancelled with nothing emitted, nothing is ever
\* emitted, and the producer ends with out closed and the event closed once.
C3_NoEmissionAfterCancel ==
  [][\A i \in Inv :
       (ctxDone[i] /\ emitted[i] = <<>>) =>
         /\ emitted'[i] = <<>>
         /\ (gpc'[i] = "done" => /\ out'[i] = "closed"
                                 /\ Count(pancakeReady'[i], "Done") = 1)]_vars

\* C4: when no Syrup call fails on a batch of at least one pancake, Syrup is
\* never called on a pancake after the first, nothing but the first pancake is
\* emitted, and a producer that ended without cancellation has emitted exactly
\* the first pancake and closed out.
C4_AllSucceedEmitsFirstOnly ==
  (Len(cakes[1]) >= 1 /\ \A k \in Items(1) : ~cakes[1][k].syrupErr) =>
    /\ \A k \in Items(1) : k > 1 => cakes[1][k].syrups = 0
    /\ emitted[1] \in {<<>>, <<1>>}
    /\ (gpc[1] = "done" /\ ~ctxDone[1]) =>
         /\ emitted[1] = <<1>>
         /\ cakes[1][1].syrups = 1
         /\ out[1] = "closed"

\* a batch of three, the first pancake received, the stream seen closed by the
\* receiver, no cancellation
C4_Witness ==
  /\ Len(cakes[1]) = 3
  /\ \A k \in Items(1) : ~cakes[1][k].syrupErr
  /\ gpc[1] = "done"
  /\ ~ctxDone[1]
  /\ emitted[1] = <<1>>
  /\ receiver[1] = "closed"

\* C5: when Syrup fails on the first pancake, that pancake is in mistakes and is
\* never emitted; without cancellation out is closed only after Syrup ran on
\* every pancake, and by then every pancake whose Syrup succeeded was emitted.
C5_FirstFailsGoesThroughBatch ==
  (Len(cakes[1]) >= 1 /\ cakes[1][1].syrupErr) =>
    /\ Len(mistakes[1]) >= 1 /\ mistakes[1][1] = 1
    /\ 1 \notin Range(emitted[1])
    /\ (out[1] = "closed" /\ ~ctxDone[1]) =>
         /\ \A k \in Items(1) : cakes[1][k].syrups = 1
         /\ \A k \in Items(1) :
              ~cakes[1][k].syrupErr =>
                Cardinality({j \in 1..Len(emitted[1]) : emitted[1][j] = k}) = 1

\* a batch of three: the first soggy, the second and third emitted, no
\* cancellation
C5_Witness ==
  /\ Len(cakes[1]) = 3
  /\ cakes[1][1].syrupErr
  /\ emitted[1] = <<2, 3>>
  /\ gpc[1] = "done"
  /\ ~ctxDone[1]

\* C6: when Flip fails on pancake k, Flip ran exactly once on every pancake up
\* to k and on none after k, and FlipPancakes returns the error of pancake k.
C6_FlipFailFast ==
  \A k \in Items(1) :
    cakes[1][k].flipErr =>
      /\ \A j \in Items(1) :
           /\ cakes[1][j].flips = (IF j <= k THEN 1 ELSE 0)
           /\ (j < k => ~cakes[1][j].flipErr)
      /\ flipRet[1] \in {NoValue, FlipError(k)}
      /\ (pc = "FlipPancakes.ret" => flipRet[1] = FlipError(k))

\* FlipPancakes returned the error of the second pancake of three
C6_Witness ==
  /\ Len(cakes[1]) = 3
  /\ pc = "caller.done"
  /\ flipRet[1] = FlipError(2)
  /\ cakes[1][3].flips = 0

\* C7: when FlipPancakes has returned, every Flip succeeded and some pancake was
\* found burnt, the error returned is "Burnt Pancake", which is the error of no
\* Flip call, and Flip ran once on every pancake.
C7_BurntBatch ==
  (/\ flipRet[1] # NoValue
   /\ \A k \in Items(1) : ~cakes[1][k].flipErr
   /\ \E k \in Items(1) : cakes[1][k].burnt = "yes") =>
    /\ flipRet[1] = BurntPancake
    /\ \A k \in Items(1) : flipRet[1] # FlipError(k)
    /\ \A k \in Items(1) : cakes[1][k].flips = 1

\* the second pancake of three was found burnt
C7_Witness ==
  /\ Len(cakes[1]) = 3
  /\ flipRet[1] = BurntPancake
  /\ cakes[1][2].burnt = "yes"

\* C8: when FlipPancakes has returned, every Flip succeeded and no pancake was
\* found burnt, it returned nil and Flip ran exactly once on every pancake.
C8_FlipSuccess ==
  (/\ flipRet[1] # NoValue
   /\ \A k \in Items(1) : ~cakes[1][k].flipErr /\ cakes[1][k].burnt # "yes") =>
    /\ flipRet[1] = Nil
    /\ \A k \in Items(1) : cakes[1][k].flips = 1

\* three pancakes flipped, none burnt
C8_Witness ==
  /\ Len(cakes[1]) = 3
  /\ flipRet[1] = Nil
  /\ \A k \in Items(1) : cakes[1][k].flips = 1 /\ cakes[1][k].burnt = "no"

\* C9: when FlipPancakes returned an error, ServeBreakfast returns that error
\* and SyrupPancakes never runs: no goroutine, no channel, no PancakeReady
\* event, no Syrup call. No invocation starts more than one goroutine.
C9_Stage1ErrorSkipsStage2 ==
  \A i \in Inv :
    /\ spawned[i] <= 1
    /\ flipRet[i] \notin {NoValue, Nil} =>
         /\ ret[i] \in {NoValue, flipRet[i]}
         /\ (Returned(i) => ret[i] = flipRet[i])
         /\ spawned[i] = 0
         /\ gpc[i] = "none"
         /\ out[i] = "nil"
         /\ pancakeReady[i] = <<>>
         /\ \A k \in Items(i) : cakes[i][k].syrups = 0

\* main printed the Flip error of the first invocation, the second invocation
\* started its goroutine
C9_Witness ==
  /\ inv = 2
  /\ reported = <<FlipError(2)>>
  /\ ret[1] = FlipError(2)
  /\ spawned[1] = 0
  /\ spawned[2] = 1

\* C10: when ServeBreakfast's result is with the run loop, rootSpan.Finish()
\* has run exactly once and cancel() has run; Finish never runs twice.
C10_RootCleanup ==
  \A i \in Inv :
    /\ finishCalls[i] <= 1
    /\ Returned(i) =>
         /\ ret[i] # NoValue
         /\ finishCalls[i] = 1
         /\ rootSpan[i] = "finished"
         /\ cancelCalls[i] >= 1
         /\ ctxDone[i]

\* one invocation returned an error, the next returned nil, both cleaned up
C10_Witness ==
  /\ inv = 2
  /\ pc = "main.report"
  /\ ret[1] = BurntPancake
  /\ ret[2] = Nil
  /\ finishCalls = [i \in Inv |-> IF i <= 2 THEN 1 ELSE 0]
  /\ ctxDone[1] /\ ctxDone[2]

\* every Flip of invocation i succeeded, no pancake was burnt and no Syrup
\* call failed
AllWentWell(i) ==
  /\ flipRet[i] = Nil
  /\ \A k \in Items(i) : /\ cakes[i][k].flips = 1
                         /\ ~cakes[i][k].flipErr
                         /\ cakes[i][k].burnt = "no"
                         /\ ~cakes[i][k].syrupErr

\* C11 as claimed: in an invocation where every Flip succeeds, nothing is burnt
\* and every Syrup succeeds, once the producer has ended exactly one pancake,
\* the first, was handed off on out, out is closed, and ServeBreakfast
\* returns nil.
C11_OneItemDrained ==
  \A i \in Inv :
    (AllWentWell(i) /\ gpc[i] = "done") =>
      /\ emitted[i] = <<1>>
      /\ out[i] = "closed"
      /\ ret[i] \in {NoValue, Nil}

\* the PancakeReady event of invocation i is not open
PancakeReadyClosed(i) ==
  pancakeReady[i] = <<>> \/ Count(pancakeReady[i], "Done") >= 1

\* the FlipPancakes event of invocation i is not open
EipClosed(i) == eip[i] = <<>> \/ Count(eip[i], "Done") >= 1

\* C12 as claimed: once the root span of an invocation is finished, and so once
\* ServeBreakfast has returned, the FlipPancakes event and the PancakeReady
\* event opened under its context are closed.
C12_EventsClosedWithRootSpan ==
  \A i \in Inv :
    (rootSpan[i] = "finished" \/ Returned(i)) =>
      /\ EipClosed(i)
      /\ PancakeReadyClosed(i)

\* C13: Syrup is attempted in batch order, the pancakes emitted are in batch
\* order and each is handed off at most once, at most one receive is pending
\* on out, and nothing is handed off once out is closed.
C13_InOrderAtMostOnce ==
  /\ [](\A k \in Items(1) :
          /\ cakes[1][k].syrups <= 1
          /\ \A j \in Items(1) :
               (j < k /\ cakes[1][k].syrups > 0) => cakes[1][j].syrups > 0)
  /\ [](\A a, b \in 1..Len(emitted[1]) :
          a < b => emitted[1][a] < emitted[1][b])
  /\ [][/\ Len(emitted'[1]) <= Len(emitted[1]) + 1
        /\ SubSeq(emitted'[1], 1, Len(emitted[1])) = emitted[1]
        /\ (Len(emitted'[1]) > Len(emitted[1]) =>
              /\ receiver[1] = "recv" /\ receiver'[1] = "idle"
              /\ out[1] = "open")
        /\ (out[1] = "closed" => emitted'[1] = emitted[1])]_vars

\* two pancakes of three were handed off, in order, and out is closed
C13_Witness ==
  /\ Len(cakes[1]) = 3
  /\ Len(emitted[1]) = 2
  /\ emitted[1][1] < emitted[1][2]
  /\ out[1] = "closed"
  /\ receiver[1] = "closed"

\* C14: once FlipPancakes has returned, its event carries a SetError exactly
\* when the returned error is not nil, the error tagged is the one returned,
\* and at no time does a SetError follow the Done of the event.
C14_ErrorTaggedBeforeClose ==
  /\ \A k \in 1..Len(eip[1]) :
       eip[1][k].op = "SetError" =>
         \A j \in 1..Len(eip[1]) : eip[1][j].op = "Done" => k < j
  /\ flipRet[1] # NoValue =>
       /\ Count(eip[1], "Done") = 1
       /\ Count(eip[1], "SetError") = (IF flipRet[1] # Nil THEN 1 ELSE 0)
       /\ \A k \in 1..Len(eip[1]) :
            eip[1][k].op = "SetError" => eip[1][k].err = flipRet[1]

\* FlipPancakes returned "Burnt Pancake": the event was tagged with it, then
\* closed
C14_Witness ==
  /\ flipRet[1] = BurntPancake
  /\ eip[1] = Done(SetError(EventBegin, BurntPancake))

\* C15: IsBurnt is evaluated only after Flip succeeded on every pancake and the
\* sleep has elapsed; once a Flip has failed there is no sleep and no IsBurnt.
C15_BurntCheckAfterCook ==
  /\ (\E k \in Items(1) : cakes[1][k].burnt # "unchecked") => slept[1]
  /\ slept[1] =>
       \A k \in Items(1) : cakes[1][k].flips = 1 /\ ~cakes[1][k].flipErr
  /\ (\E k \in Items(1) : cakes[1][k].flipErr) =>
       /\ ~slept[1]
       /\ pc \notin {"Sleep", "IsBurnt"}
       /\ \A k \in Items(1) : cakes[1][k].burnt = "unchecked"

\* the last Flip of three failed and FlipPancakes returned with no sleep and
\* no IsBurnt
C15_Witness ==
  /\ Len(cakes[1]) = 3
  /\ flipRet[1] = FlipError(3)
  /\ ~slept[1]
  /\ \A k \in Items(1) : cakes[1][k].burnt = "unchecked"

Fresh(i) ==
  /\ ~ctxDone[i]
  /\ cancelCalls[i] = 0
  /\ rootSpan[i] = "started"
  /\ finishCalls[i] = 0

\* C17: whatever ServeBreakfast returned, the run loop reports it and, as long
\* as the model lets it run (fewer than MaxInv invocations so far), starts the
\* next invocation with a context and a root span of its own; the cancel() of
\* one invocation never cancels the context of one still running.
C17_RunLoopNeverHalts ==
  /\ \A i \in Inv :
       (inv = i /\ pc = "main.report") ~>
         (Len(reported) >= i /\ reported[i] = ret[i])
  /\ \A i \in Inv :
       (inv = i /\ pc = "main.report" /\ i < MaxInv) ~>
         (inv = i + 1 /\ pc = "FlipPancakes" /\ Fresh(i + 1))
  /\ [](\A i \in Inv : ctxDone[i] => (i = inv /\ pc = "main.report") \/ Returned(i))

\* the first invocation failed and was reported, the second has begun afresh
C17_Witness ==
  /\ inv = 2
  /\ pc = "FlipPancakes"
  /\ reported = <<ret[1]>>
  /\ ret[1] \notin {Nil, NoValue}
  /\ ctxDone[1]
  /\ Fresh(2)

Max(a, b) == IF a >= b THEN a ELSE b

\* C19: no pancake whose Syrup failed is emitted, more than one pancake is
\* emitted only if Syrup failed on the first, and the number of emissions is at
\* most max(1, N - 1).
C19_EmissionBound ==
  /\ \A k \in Range(emitted[1]) :
       cakes[1][k].syrups >= 1 /\ ~cakes[1][k].syrupErr
  /\ Len(emitted[1]) > 1 => cakes[1][1].syrupErr
  /\ Len(emitted[1]) <= Max(1, Len(cakes[1]) - 1)

\* the first of three pancakes was soggy, the second was not emitted for being
\* soggy too, the third was emitted
C19_Witness ==
  /\ Len(cakes[1]) = 3
  /\ mistakes[1] = <<1, 2>>
  /\ emitted[1] = <<3>>
  /\ gpc[1] = "done"

\* C20: whenever the PancakeReady event is closed, out is closed.
C20_StreamClosedBeforeEvent ==
  \A i \in Inv :
    Count(pancakeReady[i], "Done") >= 1 => out[i] = "closed"

\* every pancake was soggy: the goroutine ended at the end of the batch, out
\* closed, then the event
C20_Witness ==
  \E i \in Inv :
    /\ Len(mistakes[i]) = NumCakes
    /\ out[i] = "closed"
    /\ pancakeReady[i] = Done(EventBegin)

====
